---- MODULE Spec2Model ----
(***************************************************************************)
(* Model of the DCA agent system: the safety validator, the order          *)
(* normaliser/executor and the autonomous pipeline of openai-agents-dca.   *)
(* Prices and USD amounts are integers (fixed point); a missing dict key   *)
(* or a None field is the sentinel None.                                   *)
(***************************************************************************)
EXTENDS Integers, Sequences, FiniteSets, TLC

VARIABLES
    pc,             \* position of the running entry point
    dry_run,        \* AutonomousDCASystem.dry_run
    intelligence,   \* market intelligence dict (portfolio, prices, open orders)
    actions,        \* list of action dicts handed to validator and executor
    validation,     \* outcome of SafetyValidator.validate_trading_decision
    execution,      \* execution_result of the cycle, NoExecution before stage 5
    exchange_calls, \* order-placement calls received by the exchange client
    result,         \* the dict run() returns, NoResult while running
    norm,           \* one order going through the executor's normaliser
    mfd,            \* two calls of make_final_decision on one market context
    research,       \* the research fan-out of one cycle
    session,        \* one run of dca-simple's main() / run_dca_session()
    agent_runs,     \* the agents started with Runner.run, in call order
    selected_option, \* strategy_options.options[decision.selected_option]
    notification,   \* what the Telegram notifier answered, "none" before
    disk            \* the clock and the JSON files written so far

vars == <<pc, dry_run, intelligence, actions, validation, execution,
          exchange_calls, result, norm, mfd, research, session, agent_runs,
          selected_option, notification, disk>>

None == -1

\* ---------------------------------------------------------------- bounds
MaxActions == 2
MaxOpenOrders == 5

\* ------------------------------------------------- SafetyValidator limits
MAX_ORDERS_PER_ASSET == 3
MAX_TOTAL_ORDERS == 5
MAX_EXPOSURE_PCT == 50
PRICE_DEVIATION_PCT == 5
MIN_ORDER_VALUE_USD == 10

\* ------------------------------------------------------------- helpers
RECURSIVE SumSeq(_)
SumSeq(s) == IF s = <<>> THEN 0 ELSE Head(s) + SumSeq(Tail(s))

RECURSIVE Concat(_)
Concat(ss) == IF ss = <<>> THEN <<>> ELSE Head(ss) \o Concat(Tail(ss))

Abs(x) == IF x < 0 THEN -x ELSE x

SeqsUpTo(S, n) == UNION {[1..k -> S] : k \in 0..n}

\* ------------------------------------------------------ action dicts
\* The dict built per action; keys is the set of keys present.
Dict(type, asset, price, amount_usd, order_id) ==
    [type |-> type, asset |-> asset, price |-> price, amount_usd |-> amount_usd,
     order_id |-> order_id,
     keys |-> {"type", "asset", "reasoning"}
              \cup (IF price # None THEN {"price"} ELSE {})
              \cup (IF amount_usd # None THEN {"amount_usd"} ELSE {})
              \cup (IF order_id # None THEN {"order_id"} ELSE {})]

\* models.schemas.Action: price, quantity and order_id are Optional,
\* quantity is a USD amount constrained to be >= 10 when given
Action(type, asset, price, quantity, order_id) ==
    [type |-> type, asset |-> asset, price |-> price, quantity |-> quantity,
     order_id |-> order_id]

\* run(): "Convert actions from Pydantic models to dictionaries"
to_action_dict(action) ==
    Dict(action.type, action.asset,
         IF action.price # None THEN action.price ELSE None,
         IF action.quantity # None THEN action.quantity ELSE None,
         IF action.order_id # None THEN action.order_id ELSE None)

\* ------------------------------------------------------ SafetyValidator
Err(i, code) == [action |-> i, code |-> code]

validate_action_structure(action) ==
    {"type", "asset", "price", "amount_usd"} \subseteq action.keys

existing_orders_for_asset(intel, asset) ==
    Cardinality({k \in DOMAIN intel.open_orders : intel.open_orders[k].symbol = asset})

validate_order_count(intel, action) ==
    (IF existing_orders_for_asset(intel, action.asset) >= MAX_ORDERS_PER_ASSET
        THEN <<"per_asset_cap">> ELSE <<>>)
    \o (IF Len(intel.open_orders) >= MAX_TOTAL_ORDERS
        THEN <<"total_cap">> ELSE <<>>)

KnownAsset(asset) == asset \in {"BTCUSDT", "ADAUSDT"}

current_price(intel, asset) ==
    IF asset = "BTCUSDT" THEN intel.btc_price ELSE intel.ada_price

DeviationExceeded_never(limit_price, current) == FALSE

\* abs((limit - current) / current * 100) > PRICE_DEVIATION_PCT, current > 0
DeviationExceeded(limit_price, current) ==
    Abs(limit_price - current) * 100 > PRICE_DEVIATION_PCT * current

validate_price_no_side_rule(intel, action) ==
    IF ~KnownAsset(action.asset) THEN <<"unknown_asset">>
    ELSE IF DeviationExceeded(action.price, current_price(intel, action.asset))
         THEN <<"price_deviation">> ELSE <<>>

validate_price(intel, action) ==
    IF ~KnownAsset(action.asset) THEN <<"unknown_asset">>
    ELSE LET current == current_price(intel, action.asset)
         IN (IF DeviationExceeded(action.price, current)
                THEN <<"price_deviation">> ELSE <<>>)
            \o (IF action.type = "PLACE_LIMIT_BUY" /\ action.price > current
                   THEN <<"buy_above_market">>
                ELSE IF action.type = "PLACE_LIMIT_SELL" /\ action.price < current
                   THEN <<"sell_below_market">>
                ELSE <<>>)

\* the division by current_price raises ZeroDivisionError when it is 0
validate_price_raises(intel, action) ==
    KnownAsset(action.asset) /\ current_price(intel, action.asset) = 0

validate_order_size(action) ==
    IF action.amount_usd < MIN_ORDER_VALUE_USD THEN <<"below_min_value">> ELSE <<>>

\* sum(action['amount_usd'] ...) raises KeyError on a dict without the key
amount_key_missing(acts) ==
    \E i \in DOMAIN acts : "amount_usd" \notin acts[i].keys

total_usd(acts) == SumSeq([i \in DOMAIN acts |-> acts[i].amount_usd])

IsBuy(type) == type \in {"PLACE_LIMIT_BUY", "PLACE_MARKET_BUY"}

total_usd_needed(acts) ==
    SumSeq([i \in DOMAIN acts |->
              IF IsBuy(acts[i].type) THEN acts[i].amount_usd ELSE 0])

validate_total_exposure(intel, acts) ==
    LET available_usdt == intel.usdt_free
    IN IF available_usdt > 0
          /\ total_usd(acts) * 100 > MAX_EXPOSURE_PCT * available_usdt
       THEN <<Err(0, "exposure")>> ELSE <<>>

validate_balance(intel, acts) ==
    IF total_usd_needed(acts) > intel.usdt_free
    THEN <<Err(0, "insufficient_balance")>> ELSE <<>>

action_errors(intel, acts, i) ==
    IF ~validate_action_structure(acts[i]) THEN <<Err(i, "invalid_structure")>>
    ELSE LET codes == validate_order_count(intel, acts[i])
                      \o validate_price(intel, acts[i])
                      \o validate_order_size(acts[i])
         IN [k \in DOMAIN codes |-> Err(i, codes[k])]

Raised == [raised |-> TRUE, is_valid |-> FALSE, errors |-> <<>>]

validate_trading_decision(intel, acts) ==
    IF \E i \in DOMAIN acts :
          validate_action_structure(acts[i]) /\ validate_price_raises(intel, acts[i])
    THEN Raised
    ELSE IF amount_key_missing(acts) THEN Raised
    ELSE LET errors == Concat([i \in DOMAIN acts |-> action_errors(intel, acts, i)])
                       \o validate_total_exposure(intel, acts)
                       \o validate_balance(intel, acts)
         IN [raised |-> FALSE, is_valid |-> Len(errors) = 0, errors |-> errors]

\* -------------------------------------------------- validator inputs
OpenOrder(symbol, price, quantity) ==
    [symbol |-> symbol, price |-> price, quantity |-> quantity]

\* quantity in 1/1000 of a token: both orders are worth 19
BtcOpenOrder == OpenOrder("BTCUSDT", 95, 200)
AdaOpenOrder == OpenOrder("ADAUSDT", 19, 1000)

\* b BTC orders followed by a ADA orders, each asset within its cap
OpenOrderLists ==
    {[k \in 1..(b + a) |-> IF k <= b THEN BtcOpenOrder ELSE AdaOpenOrder] :
        b \in 0..MAX_ORDERS_PER_ASSET, a \in 0..MAX_ORDERS_PER_ASSET}

Intelligences ==
    {[btc_price |-> 100, ada_price |-> ap, usdt_free |-> free,
      total_value_usd |-> 200, open_orders |-> oo] :
        ap \in {0, 20}, free \in {0, 100},
        oo \in {o \in OpenOrderLists : Len(o) <= MaxOpenOrders}}

ValidatorDicts ==
    {Dict("PLACE_LIMIT_BUY", "BTCUSDT", p, 10, None) : p \in {0, 94, 95, 98, 101}}
    \cup {Dict("PLACE_LIMIT_BUY", "BTCUSDT", 95, a, None) : a \in {5, 60}}
    \cup {Dict("PLACE_LIMIT_SELL", "BTCUSDT", p, 10, None) : p \in {99, 105, 106}}
    \cup {Dict("PLACE_LIMIT_SELL", "BTCUSDT", 104, 60, None),
          Dict("PLACE_LIMIT_BUY", "ADAUSDT", 19, 10, None),
          Dict("PLACE_LIMIT_BUY", "ETHUSDT", 95, 10, None),
          Dict("PLACE_MARKET_BUY", "BTCUSDT", None, 10, None),
          Dict("CANCEL_ORDER", "BTCUSDT", None, None, 7),
          Dict("HOLD", "None", None, None, None)}

\* decisions the decision agent can return (schema-valid Actions)
DecisionActions ==
    {Action("PLACE_LIMIT_BUY", "BTCUSDT", p, 10, None) : p \in {0, 94, 95, 98, 101}}
    \cup {Action("PLACE_LIMIT_SELL", "BTCUSDT", p, 10, None) : p \in {99, 105}}
    \cup {Action("PLACE_LIMIT_BUY", "BTCUSDT", 95, 60, None),
          Action("PLACE_LIMIT_BUY", "ADAUSDT", 19, 10, None),
          Action("PLACE_MARKET_BUY", "BTCUSDT", None, 10, None),
          Action("PLACE_MARKET_BUY", "BTCUSDT", 98, 10, None),
          Action("CANCEL_ORDER", "BTCUSDT", None, None, 7),
          Action("HOLD", "None", None, None, None)}

NoIntelligence ==
    [btc_price |-> 0, ada_price |-> 0, usdt_free |-> 0, total_value_usd |-> 0,
     open_orders |-> <<>>]

NoValidation == [raised |-> FALSE, is_valid |-> FALSE, errors |-> <<>>]
NoResult ==
    [returned |-> FALSE, success |-> FALSE, stage |-> "running", error |-> "None"]

Returned(success, stage, error) ==
    [returned |-> TRUE, success |-> success, stage |-> stage, error |-> error]

\* ------------------------------------------------- order normaliser
\* Quantities are exact fractions n/d of the quantity unit (the last of the
\* 8 decimals the executor prints); prices are integers in the price unit.
QtyScale == 1000

Rat(n, d) == [n |-> n, d |-> d]

Floor(n, d) == n \div d

\* Python round(): nearest integer, ties to the even one (n >= 0, d > 0)
RoundHalfEven(n, d) ==
    LET q == n \div d
        r == n % d
    IN IF 2 * r < d THEN q
       ELSE IF 2 * r > d THEN q + 1
       ELSE IF q % 2 = 0 THEN q ELSE q + 1

\* client.get_symbol_info(symbol): raises, or returns the filters it has
SymbolInfo(status, pf, tick, minp, maxp, lf, step, minq) ==
    [status |-> status, has_price_filter |-> pf, tick_size |-> tick,
     min_price |-> minp, max_price |-> maxp,
     has_lot_size |-> lf, step_size |-> step, min_qty |-> minq]

normalize_price(price, info) ==
    IF info.status = "raises" THEN price
    ELSE IF ~info.has_price_filter THEN price
    ELSE IF info.tick_size = 0 THEN price      \* ZeroDivisionError, caught
    ELSE LET p == RoundHalfEven(price, info.tick_size) * info.tick_size
         IN IF p < info.min_price THEN info.min_price
            ELSE IF p > info.max_price THEN info.max_price
            ELSE p

normalize_quantity(quantity, info) ==
    IF info.status = "raises" THEN quantity
    ELSE IF ~info.has_lot_size THEN quantity
    ELSE IF info.step_size = 0 THEN quantity   \* ZeroDivisionError, caught
    ELSE LET q == Floor(quantity.n, quantity.d * info.step_size) * info.step_size
         IN IF q < info.min_qty THEN Rat(info.min_qty, 1) ELSE Rat(q, 1)

\* f"{quantity:.8f}": the nearest multiple of the quantity unit
FormatQty(quantity) == RoundHalfEven(quantity.n, quantity.d)

\* ---------------------------------------------------- BinanceExecutor
NoCall == [made |-> FALSE, symbol |-> "None", side |-> "None",
           price |-> 0, quantity |-> 0]

ExecResult(action, success, call, error) ==
    [action |-> action, success |-> success, call |-> call, error |-> error]

\* _execute_limit_buy / _execute_limit_sell under the outcome oc of the
\* two symbol-info lookups and of the order placement call
execute_limit(action, side, oc) ==
    LET limit_price == normalize_price(action.price, oc.price_info)
    IN IF limit_price = 0
       THEN ExecResult(action, FALSE, NoCall, "ZeroDivisionError")
       ELSE LET quantity == normalize_quantity(
                                Rat(action.amount_usd * QtyScale, limit_price),
                                oc.qty_info)
                call == [made |-> TRUE, symbol |-> action.asset, side |-> side,
                         price |-> limit_price, quantity |-> FormatQty(quantity)]
            IN IF oc.api = "ok"
               THEN ExecResult(action, TRUE, call, "None")
               ELSE ExecResult(action, FALSE, call, "BinanceAPIException")

execute_one(action, oc) ==
    IF action.type = "PLACE_LIMIT_BUY" THEN execute_limit(action, "BUY", oc)
    ELSE IF action.type = "PLACE_LIMIT_SELL" THEN execute_limit(action, "SELL", oc)
    ELSE ExecResult(action, FALSE, NoCall, "ValueError")

\* the log line ahead of the try block reads action['price'] and
\* action['amount_usd']: a dict without them raises out of execute_actions
LogLineRaises(action) == ~({"price", "amount_usd"} \subseteq action.keys)

Attempted(acts) ==
    IF \E i \in DOMAIN acts : LogLineRaises(acts[i])
    THEN (CHOOSE i \in DOMAIN acts :
             /\ LogLineRaises(acts[i])
             /\ \A j \in 1..(i - 1) : ~LogLineRaises(acts[j])) - 1
    ELSE Len(acts)

CountIf(results, ok) ==
    Cardinality({i \in DOMAIN results : results[i].success = ok})

\* a loop that stops at the first failed action
execute_actions_abort_on_failure(acts, ocs) ==
    LET all == [i \in 1..Attempted(acts) |-> execute_one(acts[i], ocs[i])]
        n == IF \E i \in DOMAIN all : ~all[i].success
             THEN CHOOSE i \in DOMAIN all :
                     /\ ~all[i].success
                     /\ \A j \in 1..(i - 1) : all[j].success
             ELSE Len(all)
        results == [i \in 1..n |-> all[i]]
    IN [called |-> TRUE, raised |-> Attempted(acts) < Len(acts),
        dry_run |-> FALSE,
        success |-> CountIf(results, FALSE) = 0,
        executed |-> CountIf(results, TRUE),
        failed |-> CountIf(results, FALSE),
        results |-> results]

execute_actions(acts, ocs) ==
    LET n == Attempted(acts)
        results == [i \in 1..n |-> execute_one(acts[i], ocs[i])]
    IN [called |-> TRUE, raised |-> n < Len(acts), dry_run |-> FALSE,
        success |-> CountIf(results, FALSE) = 0,
        executed |-> CountIf(results, TRUE),
        failed |-> CountIf(results, FALSE),
        results |-> results]

CallsOf(results) ==
    LET made == SelectSeq(results, LAMBDA r : r.call.made)
    IN [i \in DOMAIN made |-> made[i].call]

DryRunExecution ==
    [called |-> FALSE, raised |-> FALSE, dry_run |-> TRUE, success |-> TRUE,
     executed |-> 0, failed |-> 0, results |-> <<>>]

NoExecution ==
    [called |-> FALSE, raised |-> FALSE, dry_run |-> FALSE, success |-> FALSE,
     executed |-> 0, failed |-> 0, results |-> <<>>]

\* what get_symbol_info can answer during one execution
PipelineInfos ==
    {SymbolInfo("ok", TRUE, 5, 5, 1000, TRUE, 10, 10),
     SymbolInfo("ok", FALSE, 0, 0, 0, FALSE, 0, 0),
     SymbolInfo("raises", FALSE, 0, 0, 0, FALSE, 0, 0)}

ExecOutcomes ==
    [price_info : PipelineInfos, qty_info : PipelineInfos, api : {"ok", "error"}]

NoNorm == [stage |-> "none"]
NoMfd == [stage |-> "none"]
NoResearch == [stage |-> "none"]
NoSession == [stage |-> "none"]
NoOption == [btc_allocation_pct |-> 0, ada_allocation_pct |-> 0]

\* a JSON file: open(path, 'w') followed by json.dump
File(dir, name, content) == [dir |-> dir, name |-> name, content |-> content]

\* open(path, 'w') truncates a file of the same path
WriteFile(files, dir, name, content) ==
    {f \in files : ~(f.dir = dir /\ f.name = name)}
        \cup {File(dir, name, content)}

\* second 0 of the clock, the first cycle, no file written
EmptyDisk == [now |-> 0, cycle |-> 1, files |-> {}]

\* what no specification but the cycle drivers touches
Untouched ==
    /\ agent_runs = <<>>
    /\ selected_option = NoOption
    /\ notification = "none"
    /\ disk = EmptyDisk

\* ------------------------------------- the validator called on its own
InitValidator ==
    /\ pc = "validator_input"
    /\ intelligence \in Intelligences
    /\ actions \in SeqsUpTo(ValidatorDicts, MaxActions)
    /\ validation = NoValidation
    /\ dry_run = FALSE
    /\ execution = NoExecution
    /\ exchange_calls = <<>>
    /\ result = NoResult
    /\ norm = NoNorm
    /\ mfd = NoMfd
    /\ research = NoResearch
    /\ Untouched
    /\ session = NoSession

ValidatorCall ==
    /\ pc = "validator_input"
    /\ validation' = validate_trading_decision(intelligence, actions)
    /\ pc' = IF validation'.raised THEN "validator_raised" ELSE "validator_done"
    /\ UNCHANGED <<agent_runs, selected_option, notification, disk, research, session, norm, mfd, intelligence, actions, dry_run, execution, exchange_calls, result>>

NextValidator == ValidatorCall

SpecValidator == InitValidator /\ [][NextValidator]_vars

\* ------------------------------------------- AutonomousDCASystem.run
Init ==
    /\ pc = "fetch"
    /\ dry_run \in BOOLEAN
    /\ intelligence = NoIntelligence
    /\ actions = <<>>
    /\ validation = NoValidation
    /\ execution = NoExecution
    /\ exchange_calls = <<>>
    /\ result = NoResult
    /\ norm = NoNorm
    /\ mfd = NoMfd
    /\ research = NoResearch
    /\ Untouched
    /\ session = NoSession

\* except Exception: return {'success': False, 'stage': 'unknown', ...}
PipelineFailed(e) ==
    /\ result' = Returned(FALSE, "unknown", e)
    /\ pc' = "returned"

\* STAGE 0
FetchMarketData ==
    /\ pc = "fetch"
    /\ intelligence' \in Intelligences
    /\ pc' = "upstream"
    /\ UNCHANGED <<agent_runs, selected_option, notification, disk, research, session, norm, mfd, dry_run, actions, validation, execution, exchange_calls, result>>

FetchMarketDataRaises_continues ==
    /\ pc = "fetch"
    /\ pc' = "upstream"
    /\ UNCHANGED <<agent_runs, selected_option, notification, disk, research, session, norm, mfd, dry_run, intelligence, actions, validation, execution,
                   exchange_calls, result>>

\* get_complete_market_intelligence or the context builder raises
FetchMarketDataRaises ==
    /\ pc = "fetch"
    /\ PipelineFailed("market_data")
    /\ UNCHANGED <<agent_runs, selected_option, notification, disk, research, session, norm, mfd, dry_run, intelligence, actions, validation, execution,
                   exchange_calls>>

\* STAGES 1-3: planner, searches, strategist
UpstreamAgents == <<"planner", "research", "strategist">>

UpstreamStages ==
    /\ pc = "upstream"
    /\ agent_runs' = agent_runs \o UpstreamAgents
    /\ pc' = "decide"
    /\ UNCHANGED <<selected_option, notification, disk, research, session, norm, mfd, dry_run, intelligence, actions, validation, execution,
                   exchange_calls, result>>

\* one of the three Runner.run calls raises
UpstreamRaises ==
    /\ pc = "upstream"
    /\ \E k \in DOMAIN UpstreamAgents :
          agent_runs' = agent_runs \o SubSeq(UpstreamAgents, 1, k)
    /\ PipelineFailed("upstream_agent")
    /\ UNCHANGED <<selected_option, notification, disk, research, session, norm, mfd, dry_run, intelligence, actions, validation, execution,
                   exchange_calls>>

\* the options the decision can select: allocation percentages of the
\* available USDT
StrategyOption(btc_allocation_pct, ada_allocation_pct) ==
    [btc_allocation_pct |-> btc_allocation_pct,
     ada_allocation_pct |-> ada_allocation_pct]

StrategyOptions == {StrategyOption(5, 0), StrategyOption(30, 20)}

\* STAGE 4: the decision agent answers, its actions become dicts
FinalDecision ==
    /\ pc = "decide"
    /\ agent_runs' = Append(agent_runs, "decision")
    /\ selected_option' \in StrategyOptions
    /\ \E decision_actions \in SeqsUpTo(DecisionActions, MaxActions) :
          actions' = [i \in DOMAIN decision_actions |->
                         to_action_dict(decision_actions[i])]
    /\ pc' = "validate"
    /\ UNCHANGED <<notification, disk, research, session, norm, mfd, dry_run, intelligence, validation, execution, exchange_calls,
                   result>>

\* Runner.run raises, or decision.selected_option is no index of the options
FinalDecisionRaises ==
    /\ pc = "decide"
    /\ agent_runs' = Append(agent_runs, "decision")
    /\ PipelineFailed("decision_agent")
    /\ UNCHANGED <<selected_option, notification, disk, research, session, norm, mfd, dry_run, intelligence, actions, validation, execution,
                   exchange_calls>>

ValidationBlocks_ignored(v) == FALSE

\* the branch run() takes on the validator's answer
ValidationBlocks(v) == ~v.is_valid

\* STAGE 4b
SafetyValidation ==
    /\ pc = "validate"
    /\ validation' = validate_trading_decision(intelligence, actions)
    /\ IF validation'.raised
       THEN PipelineFailed("validator_exception")
       ELSE IF ValidationBlocks(validation')
       THEN /\ result' = Returned(FALSE, "validation", "Safety validation failed")
            /\ pc' = "returned"
       ELSE /\ pc' = "execute"
            /\ UNCHANGED result
    /\ UNCHANGED <<agent_runs, selected_option, notification, disk, research, session, norm, mfd, dry_run, intelligence, actions, execution, exchange_calls>>

\* STAGE 5
DryRunExecute ==
    /\ pc = "execute"
    /\ dry_run
    /\ execution' = DryRunExecution
    /\ pc' = "verify"
    /\ UNCHANGED <<agent_runs, selected_option, notification, disk, research, session, norm, mfd, dry_run, intelligence, actions, validation, exchange_calls,
                   result>>

TradeExecution ==
    /\ pc = "execute"
    /\ ~dry_run
    /\ \E ocs \in [DOMAIN actions -> ExecOutcomes] :
          /\ execution' = execute_actions(actions, ocs)
          /\ exchange_calls' = exchange_calls \o CallsOf(execution'.results)
    /\ IF execution'.raised
       THEN PipelineFailed("KeyError")
       ELSE /\ pc' = "verify"
            /\ UNCHANGED result
    /\ UNCHANGED <<agent_runs, selected_option, notification, disk, research, session, norm, mfd, dry_run, intelligence, actions, validation>>

\* the report dict of run()
Report(status) ==
    [cycle |-> disk.cycle, success |-> execution.success,
     results |-> execution.results, verification |-> status]

\* _save_report: outputs/dca_execution_<%Y%m%d_%H%M%S>.json, opened with 'w'
save_report(report) ==
    [disk EXCEPT !.files = WriteFile(@, "outputs", disk.now, report)]

\* TelegramNotifier: a notifier without credentials, a status code other
\* than 200 and an exception of requests.post all answer False
NotifierOutcomes == {"sent", "disabled", "http_error", "exception"}

send_message_raising(outcome) ==
    [raised |-> outcome = "exception", sent |-> outcome = "sent"]

send_message(outcome) == [raised |-> FALSE, sent |-> outcome = "sent"]

\* STAGE 6, the report, its file and the notification
Verification ==
    /\ pc = "verify"
    /\ agent_runs' = Append(agent_runs, "verifier")
    /\ \E status \in {"PASS", "ISSUES"}, outcome \in NotifierOutcomes :
          /\ disk' = save_report(Report(status))
          /\ IF send_message(outcome).raised
             THEN /\ notification' = "raised"
                  /\ PipelineFailed("notifier")
             ELSE /\ notification' =
                        IF send_message(outcome).sent THEN "sent" ELSE "failed"
                  /\ result' = Returned(execution.success, "complete", "None")
                  /\ pc' = "returned"
    /\ UNCHANGED <<selected_option, research, session, norm, mfd, dry_run, intelligence, actions, validation, execution,
                   exchange_calls>>

\* the verifier's Runner.run raises
VerificationRaises ==
    /\ pc = "verify"
    /\ agent_runs' = Append(agent_runs, "verifier")
    /\ PipelineFailed("verifier_agent")
    /\ UNCHANGED <<selected_option, notification, disk, research, session, norm, mfd, dry_run, intelligence, actions, validation, execution,
                   exchange_calls>>

\* _save_report raises (os.makedirs or open fails) after the verifier answered
SaveReportRaises ==
    /\ pc = "verify"
    /\ agent_runs' = Append(agent_runs, "verifier")
    /\ PipelineFailed("OSError")
    /\ UNCHANGED <<selected_option, notification, disk, research, session, norm, mfd, dry_run, intelligence, actions, validation, execution,
                   exchange_calls>>

Next ==
    \/ FetchMarketData
    \/ FetchMarketDataRaises
    \/ UpstreamStages
    \/ UpstreamRaises
    \/ FinalDecision
    \/ FinalDecisionRaises
    \/ SafetyValidation
    \/ DryRunExecute
    \/ TradeExecution
    \/ Verification
    \/ VerificationRaises
    \/ SaveReportRaises

Spec == Init /\ [][Next]_vars

\* ------------------------------ one limit order through the normaliser
\* the PRICE_FILTER and LOT_SIZE the exchange holds for the symbol
PriceFilters ==
    {[tick_size |-> 0, min_price |-> 0, max_price |-> 0],
     [tick_size |-> 1, min_price |-> 1, max_price |-> 1000],
     [tick_size |-> 5, min_price |-> 5, max_price |-> 1000],
     [tick_size |-> 10, min_price |-> 10, max_price |-> 100]}

LotSizes ==
    {[step_size |-> 0, min_qty |-> 0],
     [step_size |-> 1, min_qty |-> 1],
     [step_size |-> 10, min_qty |-> 10],
     [step_size |-> 10, min_qty |-> 200]}

Lookups == {"ok", "no_filter", "raises"}

RawPrices == {0, 7, 12, 15, 25, 94, 1005}
Amounts == {10, 30}

\* what get_symbol_info answers under a lookup outcome
InfoFor(lookup, pf, lf) ==
    SymbolInfo(IF lookup = "raises" THEN "raises" ELSE "ok",
               lookup = "ok", pf.tick_size, pf.min_price, pf.max_price,
               lookup = "ok", lf.step_size, lf.min_qty)

InitNormalizer ==
    /\ pc = "normalize_price"
    /\ norm \in [stage : {"input"}, price : RawPrices, amount_usd : Amounts,
                 price_filter : PriceFilters, lot_size : LotSizes,
                 price_lookup : Lookups, qty_lookup : Lookups,
                 limit_price : {0}, raw_quantity : {Rat(0, 1)},
                 quantity : {Rat(0, 1)}]
    /\ dry_run = FALSE
    /\ intelligence = NoIntelligence
    /\ actions = <<>>
    /\ validation = NoValidation
    /\ execution = NoExecution
    /\ exchange_calls = <<>>
    /\ result = NoResult
    /\ mfd = NoMfd
    /\ research = NoResearch
    /\ Untouched
    /\ session = NoSession

\* limit_price = self._normalize_price(symbol, original_price)
NormalizePrice ==
    /\ pc = "normalize_price"
    /\ norm' = [norm EXCEPT
          !.stage = "price",
          !.limit_price = normalize_price(norm.price,
              InfoFor(norm.price_lookup, norm.price_filter, norm.lot_size))]
    /\ pc' = "normalize_quantity"
    /\ UNCHANGED <<agent_runs, selected_option, notification, disk, research, session, mfd, dry_run, intelligence, actions, validation, execution,
                   exchange_calls, result>>

\* quantity = amount_usd / limit_price; self._normalize_quantity(symbol, quantity)
NormalizeQuantity ==
    /\ pc = "normalize_quantity"
    /\ norm.limit_price > 0
    /\ LET raw == Rat(norm.amount_usd * QtyScale, norm.limit_price)
       IN norm' = [norm EXCEPT
             !.stage = "quantity",
             !.raw_quantity = raw,
             !.quantity = normalize_quantity(raw,
                 InfoFor(norm.qty_lookup, norm.price_filter, norm.lot_size))]
    /\ pc' = "place_order"
    /\ UNCHANGED <<agent_runs, selected_option, notification, disk, research, session, mfd, dry_run, intelligence, actions, validation, execution,
                   exchange_calls, result>>

\* amount_usd / limit_price raises ZeroDivisionError
QuantityDivisionRaises ==
    /\ pc = "normalize_quantity"
    /\ norm.limit_price = 0
    /\ pc' = "order_failed"
    /\ UNCHANGED <<agent_runs, selected_option, notification, disk, research, session, norm, mfd, dry_run, intelligence, actions, validation,
                   execution, exchange_calls, result>>

\* client.order_limit_buy(symbol, quantity=quantity_str, price=price_str)
PlaceNormalizedOrder ==
    /\ pc = "place_order"
    /\ exchange_calls' = exchange_calls \o
          <<[made |-> TRUE, symbol |-> "BTCUSDT", side |-> "BUY",
             price |-> norm.limit_price, quantity |-> FormatQty(norm.quantity)]>>
    /\ pc' = "order_placed"
    /\ UNCHANGED <<agent_runs, selected_option, notification, disk, research, session, norm, mfd, dry_run, intelligence, actions, validation,
                   execution, result>>

NextNormalizer ==
    \/ NormalizePrice
    \/ NormalizeQuantity
    \/ QuantityDivisionRaises
    \/ PlaceNormalizedOrder

SpecNormalizer == InitNormalizer /\ [][NextNormalizer]_vars

\* ------------------------------------------------ make_final_decision
\* AgentConfig risk limits quoted in the risk validator's instructions
AGENT_MAX_ORDERS_PER_ASSET == 3
AGENT_MAX_TOTAL_ORDERS == 6
AGENT_MAX_PORTFOLIO_EXPOSURE_PCT == 50
AGENT_LIMIT_PRICE_DEVIATION_PCT == 5
AGENT_MIN_ORDER_VALUE_USD == 10

\* format_validator_prompt: prices, portfolio value and open-order counts
format_validator_prompt(context) ==
    [btc_price |-> context.btc_price, ada_price |-> context.ada_price,
     total_value_usd |-> context.total_value_usd,
     btc_orders |-> existing_orders_for_asset(context, "BTCUSDT"),
     ada_orders |-> existing_orders_for_asset(context, "ADAUSDT"),
     total_orders |-> Len(context.open_orders),
     shown |-> <<>>]

\* an action as format_validator_input prints it: a falsy price or
\* quantity (None or 0) is left out
ShownAction(a) ==
    [type |-> a.type, asset |-> a.asset,
     price |-> IF a.price # None /\ a.price # 0 THEN a.price ELSE None,
     quantity |-> IF a.quantity # None /\ a.quantity # 0 THEN a.quantity ELSE None]

format_validator_input(decision_actions, context) ==
    [format_validator_prompt(context) EXCEPT
        !.shown = [i \in DOMAIN decision_actions |-> ShownAction(decision_actions[i])]]

ShownCount(prompt, types, asset) ==
    Cardinality({i \in DOMAIN prompt.shown :
                    prompt.shown[i].type \in types /\ prompt.shown[i].asset = asset})

PromptPrice(prompt, asset) ==
    IF asset = "BTCUSDT" THEN prompt.btc_price ELSE prompt.ada_price

\* The risk validator agent following its instructions on the text it is given:
\* the five checks of its VALIDATION PROCESS over the actions shown to it.
RiskValidatorViolations(prompt) ==
    LET placed(asset) == ShownCount(prompt, {"PLACE_LIMIT_BUY"}, asset)
                         - ShownCount(prompt, {"CANCEL_ORDER"}, asset)
        btc == prompt.btc_orders + placed("BTCUSDT")
        ada == prompt.ada_orders + placed("ADAUSDT")
        placing == {i \in DOMAIN prompt.shown :
                       prompt.shown[i].type \in {"PLACE_LIMIT_BUY", "PLACE_LIMIT_SELL",
                                                 "PLACE_MARKET_BUY", "PLACE_MARKET_SELL"}}
        limits == {i \in DOMAIN prompt.shown :
                       /\ prompt.shown[i].type \in {"PLACE_LIMIT_BUY", "PLACE_LIMIT_SELL"}
                       /\ prompt.shown[i].price # None}
        value(i) == IF prompt.shown[i].quantity # None
                    THEN prompt.shown[i].quantity ELSE 0
        exposure == SumSeq([i \in DOMAIN prompt.shown |->
                               IF i \in placing THEN value(i) ELSE 0])
    IN (IF btc > AGENT_MAX_ORDERS_PER_ASSET \/ ada > AGENT_MAX_ORDERS_PER_ASSET
           \/ prompt.total_orders + placed("BTCUSDT") + placed("ADAUSDT")
                > AGENT_MAX_TOTAL_ORDERS
        THEN {"order_count"} ELSE {})
       \cup (IF exposure * 100 > AGENT_MAX_PORTFOLIO_EXPOSURE_PCT * prompt.total_value_usd
             THEN {"exposure"} ELSE {})
       \cup (IF \E i \in limits :
                  Abs(prompt.shown[i].price - PromptPrice(prompt, prompt.shown[i].asset)) * 100
                    > AGENT_LIMIT_PRICE_DEVIATION_PCT
                      * PromptPrice(prompt, prompt.shown[i].asset)
             THEN {"price_deviation"} ELSE {})
       \cup (IF \E i \in placing : value(i) < AGENT_MIN_ORDER_VALUE_USD
             THEN {"min_value"} ELSE {})
       \cup (IF \E i, j \in limits :
                  /\ i < j
                  /\ prompt.shown[i].asset = prompt.shown[j].asset
                  /\ prompt.shown[i].price = prompt.shown[j].price
             THEN {"duplicate"} ELSE {})

RiskValidator(prompt) ==
    IF RiskValidatorViolations(prompt) = {} THEN "PASS" ELSE "TRIPWIRE"

MfdActions ==
    {Action("PLACE_LIMIT_BUY", "BTCUSDT", p, 10, None) : p \in {94, 95, 98}}
    \cup {Action("HOLD", "None", None, None, None)}

MfdContexts == {c \in Intelligences : c.ada_price = 20 /\ c.usdt_free = 100}

PendingRun == [stage |-> "pending", actions |-> <<>>, status |-> "None",
               path |-> "None"]

InitDecision ==
    /\ pc = "make_final_decision"
    /\ research = NoResearch
    /\ Untouched
    /\ session = NoSession
    /\ mfd \in [stage : {"running"}, context : MfdContexts,
                runs : {<<PendingRun, PendingRun>>}]
    /\ dry_run = FALSE
    /\ intelligence = NoIntelligence
    /\ actions = <<>>
    /\ validation = NoValidation
    /\ execution = NoExecution
    /\ exchange_calls = <<>>
    /\ result = NoResult
    /\ norm = NoNorm

\* the second call starts when the first has ended
MayStart(r) ==
    /\ mfd.runs[r].stage = "pending"
    /\ r = 2 => mfd.runs[1].stage \in {"returned", "raised"}

\* which prompt the guardrail attached to the decision run is given
GuardrailInput(decision_actions, context) == format_validator_prompt(context)

\* Runner.run(decision_agent, user_prompt, input_guardrails=[(risk_validator,
\* validator_prompt)]): the decision, and the guardrail output when the result
\* carries one
DecisionAgentRun(r) ==
    /\ pc = "make_final_decision"
    /\ MayStart(r)
    /\ \E decision_actions \in SeqsUpTo(MfdActions, MaxActions), has_outputs \in BOOLEAN :
          mfd' = [mfd EXCEPT !.runs[r] =
              IF has_outputs
              THEN [stage |-> "returned", actions |-> decision_actions,
                    status |-> RiskValidator(GuardrailInput(decision_actions, mfd.context)),
                    path |-> "guardrail_outputs"]
              ELSE [stage |-> "manual", actions |-> decision_actions,
                    status |-> "None", path |-> "manual"]]
    /\ UNCHANGED <<agent_runs, selected_option, notification, disk, research, session, pc, norm, dry_run, intelligence, actions, validation, execution,
                   exchange_calls, result>>

DecisionAgentRaises(r) ==
    /\ pc = "make_final_decision"
    /\ MayStart(r)
    /\ mfd' = [mfd EXCEPT !.runs[r].stage = "raised"]
    /\ UNCHANGED <<agent_runs, selected_option, notification, disk, research, session, pc, norm, dry_run, intelligence, actions, validation, execution,
                   exchange_calls, result>>

\* "Run validator manually if not in guardrails"
ManualValidator(r) ==
    /\ pc = "make_final_decision"
    /\ mfd.runs[r].stage = "manual"
    /\ mfd' = [mfd EXCEPT
          !.runs[r].stage = "returned",
          !.runs[r].status =
              RiskValidator(format_validator_input(mfd.runs[r].actions, mfd.context))]
    /\ UNCHANGED <<agent_runs, selected_option, notification, disk, research, session, pc, norm, dry_run, intelligence, actions, validation, execution,
                   exchange_calls, result>>

ManualValidatorRaises(r) ==
    /\ pc = "make_final_decision"
    /\ mfd.runs[r].stage = "manual"
    /\ mfd' = [mfd EXCEPT !.runs[r].stage = "raised"]
    /\ UNCHANGED <<agent_runs, selected_option, notification, disk, research, session, pc, norm, dry_run, intelligence, actions, validation, execution,
                   exchange_calls, result>>

NextDecision ==
    \E r \in 1..2 :
        \/ DecisionAgentRun(r)
        \/ DecisionAgentRaises(r)
        \/ ManualValidator(r)
        \/ ManualValidatorRaises(r)

SpecDecision == InitDecision /\ [][NextDecision]_vars

\* ------------------------------- the normaliser applied to its own output
\* The executor computes in binary floating point: float(filter['stepSize'])
\* is the nearest float to the decimal string, quantity // step_size is the
\* floor of the exact quotient of the two floats, and every product or
\* quotient is rounded to the nearest float.  Floats are modelled with a
\* mantissa of FloatBits bits, as multiples of 1/FloatUnit.
FloatBits == 8
FloatUnit == 2 ^ (FloatBits + 3)

RECURSIVE ExponentOf(_, _)
ExponentOf(n, d) ==
    IF n < d * 2 ^ FloatBits THEN 0 ELSE 1 + ExponentOf(n, 2 * d)

\* the float nearest to n/d units (round to nearest, ties to even)
ToFloat(n, d) ==
    LET k == ExponentOf(n, d)
    IN RoundHalfEven(n, d * 2 ^ k) * 2 ^ k

\* float('0.1'): a decimal string num/den parsed to the nearest float
float_of(dec) == ToFloat(dec.num * FloatUnit, dec.den)

\* round(price / tick_size) * tick_size, then the min/max clamp
normalize_price_float(price, tick_size, min_price, max_price) ==
    IF tick_size = 0 THEN price                \* ZeroDivisionError, caught
    ELSE LET quotient == ToFloat(price * FloatUnit, tick_size)
             p == ToFloat(RoundHalfEven(quotient, FloatUnit) * tick_size, 1)
         IN IF p < min_price THEN min_price
            ELSE IF p > max_price THEN max_price
            ELSE p

\* (quantity // step_size) * step_size, then the raise to min_qty
normalize_quantity_float(quantity, step_size, min_qty) ==
    IF step_size = 0 THEN quantity             \* ZeroDivisionError, caught
    ELSE LET q == ToFloat(Floor(quantity, step_size) * step_size, 1)
         IN IF q < min_qty THEN min_qty ELSE q

\* tickSize / stepSize strings of the exchange: '0.1', '0.2', '0.5', '0.01',
\* '0.25', and '0' for a degenerate filter
DecimalSizes ==
    {[num |-> 1, den |-> 10], [num |-> 2, den |-> 10], [num |-> 5, den |-> 10],
     [num |-> 1, den |-> 100], [num |-> 25, den |-> 100], [num |-> 0, den |-> 1]}

MaxPriceString == [num |-> 3, den |-> 1]

\* the raw prices and quantities: every float up to 4
FloatInputs == {ToFloat(n, 1) : n \in 0..(4 * FloatUnit)}

InitRenormalize ==
    /\ pc = "renormalize_input"
    /\ norm \in [stage : {"float_input"}, raw : FloatInputs,
                 size : DecimalSizes,
                 price_once : {0}, price_twice : {0},
                 quantity_once : {0}, quantity_twice : {0}]
    /\ dry_run = FALSE
    /\ intelligence = NoIntelligence
    /\ actions = <<>>
    /\ validation = NoValidation
    /\ execution = NoExecution
    /\ exchange_calls = <<>>
    /\ result = NoResult
    /\ mfd = NoMfd
    /\ research = NoResearch
    /\ Untouched
    /\ session = NoSession

\* _normalize_price(symbol, price) and _normalize_quantity(symbol, quantity)
\* under the symbol's filter: minPrice = tickSize, minQty = stepSize
NormalizeRaw ==
    /\ pc = "renormalize_input"
    /\ LET size == float_of(norm.size)
       IN norm' = [norm EXCEPT
             !.stage = "once",
             !.price_once = normalize_price_float(norm.raw, size, size,
                                float_of(MaxPriceString)),
             !.quantity_once = normalize_quantity_float(norm.raw, size, size)]
    /\ pc' = "renormalize_output"
    /\ UNCHANGED <<agent_runs, selected_option, notification, disk, research, session, mfd, dry_run, intelligence, actions, validation, execution,
                   exchange_calls, result>>

\* the same two calls on the values they returned
NormalizeAgain ==
    /\ pc = "renormalize_output"
    /\ LET size == float_of(norm.size)
       IN norm' = [norm EXCEPT
             !.stage = "twice",
             !.price_twice = normalize_price_float(norm.price_once, size, size,
                                float_of(MaxPriceString)),
             !.quantity_twice = normalize_quantity_float(norm.quantity_once,
                                size, size)]
    /\ pc' = "renormalized"
    /\ UNCHANGED <<agent_runs, selected_option, notification, disk, research, session, mfd, dry_run, intelligence, actions, validation, execution,
                   exchange_calls, result>>

NextRenormalize ==
    \/ NormalizeRaw
    \/ NormalizeAgain

SpecRenormalize == InitRenormalize /\ [][NextRenormalize]_vars

\* ------------------------------------------- dca-simple: run_dca_session
\* EUR amounts are floats in units of 1/FloatUnit.
Eur(x) == x * FloatUnit

FloatAdd(a, b) == ToFloat(a + b, 1)
FloatMul(a, b) == ToFloat(a * b, FloatUnit)
FloatDiv(a, b) == ToFloat(a * FloatUnit, b)

\* dca-simple/config.py
MIN_EUR_THRESHOLD == 10
MIN_ORDER_SIZE == 10

Percent(p) == float_of([num |-> p, den |-> 100])

calculate_deployment_amount(eur_balance) ==
    IF eur_balance < Eur(MIN_EUR_THRESHOLD) THEN 0
    ELSE IF eur_balance < Eur(20) THEN FloatMul(eur_balance, Percent(95))
    ELSE IF eur_balance < Eur(50) THEN FloatMul(eur_balance, Percent(50))
    ELSE IF eur_balance < Eur(100) THEN FloatMul(eur_balance, Percent(35))
    ELSE IF eur_balance <= Eur(500) THEN FloatMul(eur_balance, Percent(25))
    ELSE FloatMul(eur_balance, Percent(20))

SimpleDCADecision(btc_amount, ada_amount) ==
    [btc_amount |-> btc_amount, ada_amount |-> ada_amount]

total_amount(decision) == FloatAdd(decision.btc_amount, decision.ada_amount)
is_hold(decision) == total_amount(decision) = 0

\* get_decision: the oracle's output scaled down to max_deploy, then amounts
\* below the minimum order size set to 0
get_decision(oracle, max_deploy) ==
    LET total == FloatAdd(oracle.btc_amount, oracle.ada_amount)
        scale_factor == FloatDiv(max_deploy, total)
        scaled == IF total > max_deploy
                  THEN SimpleDCADecision(FloatMul(oracle.btc_amount, scale_factor),
                                         FloatMul(oracle.ada_amount, scale_factor))
                  ELSE oracle
        Zeroed(x) == IF 0 < x /\ x < Eur(MIN_ORDER_SIZE) THEN 0 ELSE x
    IN SimpleDCADecision(Zeroed(scaled.btc_amount), Zeroed(scaled.ada_amount))

validate_deployment_amounts_no_balance_check(btc_amount, ada_amount, max_deploy, eur_balance) ==
    LET total == FloatAdd(btc_amount, ada_amount)
    IN IF total > max_deploy
       THEN [is_valid |-> FALSE, message |-> "exceeds max deploy"]
       ELSE IF btc_amount > 0 /\ btc_amount < Eur(MIN_ORDER_SIZE)
       THEN [is_valid |-> FALSE, message |-> "BTC amount below minimum"]
       ELSE IF ada_amount > 0 /\ ada_amount < Eur(MIN_ORDER_SIZE)
       THEN [is_valid |-> FALSE, message |-> "ADA amount below minimum"]
       ELSE [is_valid |-> TRUE, message |-> "Validation passed"]

\* utils.validate_deployment_amounts: TRUE with "Validation passed", or FALSE
\* with the first violated constraint
validate_deployment_amounts(btc_amount, ada_amount, max_deploy, eur_balance) ==
    LET total == FloatAdd(btc_amount, ada_amount)
    IN IF total > max_deploy
       THEN [is_valid |-> FALSE, message |-> "exceeds max deploy"]
       ELSE IF total > eur_balance
       THEN [is_valid |-> FALSE, message |-> "exceeds balance"]
       ELSE IF btc_amount > 0 /\ btc_amount < Eur(MIN_ORDER_SIZE)
       THEN [is_valid |-> FALSE, message |-> "BTC amount below minimum"]
       ELSE IF ada_amount > 0 /\ ada_amount < Eur(MIN_ORDER_SIZE)
       THEN [is_valid |-> FALSE, message |-> "ADA amount below minimum"]
       ELSE IF total > 0 /\ btc_amount = 0 /\ ada_amount = 0
       THEN [is_valid |-> FALSE, message |-> "Must allocate to at least one asset"]
       ELSE [is_valid |-> TRUE, message |-> "Validation passed"]

\* what can happen inside SimpleMarketExecutor.execute_market_buy when it is
\* not a dry run: the ticker call raises; step_size.bit_length() raises for a
\* LOT_SIZE step below 1 (a float has no bit_length); the exchange rejects
\* the order; the order is filled
MarketOutcomes ==
    {"ticker_raises", "bit_length_raises", "order_rejected", "filled"}

MarketResult(success, asset, usd_amount, order_id, error) ==
    [success |-> success, asset |-> asset, usd_amount |-> usd_amount,
     order_id |-> order_id, error |-> error]

execute_market_buy(asset, usd_amount, is_dry_run, outcome) ==
    IF is_dry_run
    THEN MarketResult(TRUE, asset, usd_amount, "DRY_RUN_12345", "None")
    ELSE IF outcome = "filled"
    THEN MarketResult(TRUE, asset, usd_amount, "orderId", "None")
    ELSE MarketResult(FALSE, asset, usd_amount, "None", outcome)

\* client.new_order(symbol, side='BUY', type='MARKET', quantity)
MarketOrderCalls(asset, usd_amount, is_dry_run, outcome) ==
    IF ~is_dry_run /\ outcome \in {"filled", "order_rejected"}
    THEN <<[made |-> TRUE, symbol |-> asset, side |-> "BUY", price |-> 0,
            quantity |-> usd_amount]>>
    ELSE <<>>

\* the fields DCASession declares without a default
DCASessionRequired ==
    {"timestamp", "session_type", "usdt_balance", "max_deploy",
     "deployment_percentage", "btc_price", "ada_price", "btc_rsi", "ada_rsi",
     "fear_greed", "decision", "remaining_balance"}

\* the keyword arguments run_dca_session passes to DCASession(...)
SessionKwargs ==
    {"timestamp", "session_type", "eur_balance", "max_deploy",
     "deployment_percentage", "btc_price", "ada_price", "btc_rsi", "ada_rsi",
     "fear_greed", "decision", "remaining_balance"}

BuySessionKwargs ==
    SessionKwargs \cup {"execution_results", "total_deployed", "total_fees"}

NoRecord == [raised |-> FALSE, session_type |-> "None", execution_results |-> <<>>]

\* DCASession(**kwargs): pydantic raises ValidationError when a required
\* field is missing and ignores keywords that are not fields
DCASession(kwargs, session_type, execution_results) ==
    IF DCASessionRequired \subseteq kwargs
    THEN [raised |-> FALSE, session_type |-> session_type,
          execution_results |-> execution_results]
    ELSE [raised |-> TRUE, session_type |-> "None", execution_results |-> <<>>]

\* DCASession.was_successful
was_successful(record) ==
    IF record.session_type # "BUY" THEN TRUE
    ELSE \A i \in DOMAIN record.execution_results :
            record.execution_results[i].success

\* EUR balances of the account and amounts the oracle may answer
Balances == {Eur(5), Eur(10), Eur(12), Eur(20), Eur(30), Eur(50), Eur(100)}
OracleAmounts == {0, Eur(5), Eur(10), Eur(12), Eur(20), Eur(45), Eur(55)}
OracleDecisions ==
    {SimpleDCADecision(b, a) : b \in OracleAmounts, a \in OracleAmounts}

InitSimple ==
    /\ pc = "main"
    /\ session \in [stage : {"running"}, dry_run : BOOLEAN,
                    eur_balance : {0}, max_deploy : {0},
                    decision : {SimpleDCADecision(0, 0)},
                    results : {<<>>}, record : {NoRecord},
                    notification : {"none"}, save_raised : {FALSE},
                    saved : {<<>>}, exit_code : {None}, error : {"None"}]
    /\ exchange_calls = <<>>
    /\ dry_run = FALSE
    /\ intelligence = NoIntelligence
    /\ actions = <<>>
    /\ validation = NoValidation
    /\ execution = NoExecution
    /\ result = NoResult
    /\ norm = NoNorm
    /\ mfd = NoMfd
    /\ research = NoResearch
    /\ Untouched

\* what run_dca_session leaves alone
SimpleUnchanged ==
    UNCHANGED <<dry_run, intelligence, actions, validation, execution, result,
                norm, mfd, research, selected_option, notification, disk>>

\* an exception leaves run_dca_session and main() exits with code 1
SessionFails(base, e) ==
    /\ session' = [base EXCEPT !.stage = "failed", !.error = e, !.exit_code = 1]
    /\ pc' = "exited"

\* session = DCASession(...); send_notification(session);
\* save_execution_log(session); return session; then main()'s sys.exit
FinalizeSession(base, session_type, kwargs) ==
    LET record == DCASession(kwargs, session_type, base.results)
    IN IF record.raised
       THEN SessionFails(base, "ValidationError")
       ELSE \E notified \in {"sent", "failed"}, saved \in BOOLEAN :
               /\ session' = [base EXCEPT
                     !.record = record,
                     !.notification = notified,
                     !.save_raised = ~saved,
                     !.saved = IF saved THEN Append(@, record) ELSE @,
                     !.stage = IF saved THEN "returned" ELSE "failed",
                     !.error = IF saved THEN "None" ELSE "OSError",
                     !.exit_code = IF saved /\ was_successful(record)
                                   THEN 0 ELSE 1]
               /\ pc' = "exited"

\* main(): config.validate_config()
ValidateConfig ==
    /\ pc = "main"
    /\ pc' = "check_balance"
    /\ UNCHANGED <<session, exchange_calls, agent_runs>>
    /\ SimpleUnchanged

ValidateConfigRaises ==
    /\ pc = "main"
    /\ SessionFails(session, "ValueError")
    /\ UNCHANGED <<exchange_calls, agent_runs>>
    /\ SimpleUnchanged

\* STEP 1: balance, deployment cap and the two SKIP exits
CheckBalance ==
    /\ pc = "check_balance"
    /\ \E eur_balance \in Balances :
          LET max_deploy == calculate_deployment_amount(eur_balance)
              base == [session EXCEPT !.eur_balance = eur_balance,
                                      !.max_deploy = max_deploy]
          IN IF eur_balance < Eur(MIN_EUR_THRESHOLD)
             THEN FinalizeSession([base EXCEPT !.max_deploy = 0], "SKIP",
                                  SessionKwargs)
             ELSE IF eur_balance < Eur(20) /\ max_deploy < Eur(MIN_ORDER_SIZE)
             THEN FinalizeSession(base, "SKIP", SessionKwargs)
             ELSE /\ session' = base
                  /\ pc' = "intelligence"
    /\ UNCHANGED <<exchange_calls, agent_runs>>
    /\ SimpleUnchanged

CheckBalanceRaises ==
    /\ pc = "check_balance"
    /\ SessionFails(session, "BinanceAPIException")
    /\ UNCHANGED <<exchange_calls, agent_runs>>
    /\ SimpleUnchanged

\* STEP 2
GatherIntelligence ==
    /\ pc = "intelligence"
    /\ pc' = "decision"
    /\ UNCHANGED <<session, exchange_calls, agent_runs>>
    /\ SimpleUnchanged

GatherIntelligenceRaises ==
    /\ pc = "intelligence"
    /\ SessionFails(session, "BinanceAPIException")
    /\ UNCHANGED <<exchange_calls, agent_runs>>
    /\ SimpleUnchanged

\* STEP 3 and STEP 4: the decision, its validation and the HOLD exit
GetDecision ==
    /\ pc = "decision"
    /\ \E oracle \in OracleDecisions :
          LET decision == get_decision(oracle, session.max_deploy)
              base == [session EXCEPT !.decision = decision]
              checked == validate_deployment_amounts(decision.btc_amount,
                             decision.ada_amount, session.max_deploy,
                             session.eur_balance)
          IN IF ~checked.is_valid
             THEN SessionFails(base, "ValueError")
             ELSE IF is_hold(decision)
             THEN FinalizeSession(base, "HOLD", SessionKwargs)
             ELSE /\ session' = base
                  /\ pc' = "execute_btc"
    /\ agent_runs' = Append(agent_runs, "decision_agent")
    /\ UNCHANGED exchange_calls
    /\ SimpleUnchanged

GetDecisionRaises ==
    /\ pc = "decision"
    /\ SessionFails(session, "oracle")
    /\ agent_runs' = Append(agent_runs, "decision_agent")
    /\ UNCHANGED exchange_calls
    /\ SimpleUnchanged

\* STEP 5: one market buy per asset whose amount reaches MIN_ORDER_SIZE
ExecuteOrder(asset, usd_amount, next_pc) ==
    /\ IF usd_amount >= Eur(MIN_ORDER_SIZE)
       THEN \E outcome \in MarketOutcomes :
               /\ session' = [session EXCEPT !.results = Append(@,
                     execute_market_buy(asset, usd_amount, session.dry_run,
                                        outcome))]
               /\ exchange_calls' = exchange_calls \o
                     MarketOrderCalls(asset, usd_amount, session.dry_run,
                                      outcome)
       ELSE UNCHANGED <<session, exchange_calls>>
    /\ pc' = next_pc

ExecuteBtcOrder ==
    /\ pc = "execute_btc"
    /\ ExecuteOrder("BTCEUR", session.decision.btc_amount, "execute_ada")
    /\ UNCHANGED agent_runs
    /\ SimpleUnchanged

ExecuteAdaOrder ==
    /\ pc = "execute_ada"
    /\ ExecuteOrder("ADAEUR", session.decision.ada_amount, "finalize")
    /\ UNCHANGED agent_runs
    /\ SimpleUnchanged

\* the BUY session record and STEP 6
FinalizeBuySession ==
    /\ pc = "finalize"
    /\ FinalizeSession(session, "BUY", BuySessionKwargs)
    /\ UNCHANGED <<exchange_calls, agent_runs>>
    /\ SimpleUnchanged

NextSimple ==
    \/ ValidateConfig
    \/ ValidateConfigRaises
    \/ CheckBalance
    \/ CheckBalanceRaises
    \/ GatherIntelligence
    \/ GatherIntelligenceRaises
    \/ GetDecision
    \/ GetDecisionRaises
    \/ ExecuteBtcOrder
    \/ ExecuteAdaOrder
    \/ FinalizeBuySession

SpecSimple == InitSimple /\ [][NextSimple]_vars

\* ------------------------------------------------- research fan-out
\* The plan's queries are numbered 1..MaxQueries in plan order.  A summary
\* carries the query it is labelled with, the query whose task produced it
\* and its recency_score.
MaxQueries == 3

Queries == 1..MaxQueries
RecencyScores == {5, 8}

ResearchSummary(query, produced_by, recency_score) ==
    [query |-> query, produced_by |-> produced_by,
     recency_score |-> recency_score]

\* execute_research: summary.query = query.query
execute_research(query, recency_score) ==
    ResearchSummary(query, query, recency_score)

\* results.sort(key=lambda r: (-r.recency_score)): a stable sort
RECURSIVE InsertByRecency(_, _)
InsertByRecency(sorted, r) ==
    IF sorted = <<>> THEN <<r>>
    ELSE IF Head(sorted).recency_score >= r.recency_score
    THEN <<Head(sorted)>> \o InsertByRecency(Tail(sorted), r)
    ELSE <<r>> \o sorted

RECURSIVE SortByRecency(_)
SortByRecency(results) ==
    IF results = <<>> THEN <<>>
    ELSE InsertByRecency(SortByRecency(SubSeq(results, 1, Len(results) - 1)),
                         results[Len(results)])

\* the body of the as_completed loop in execute_research_plan: a result is
\* appended, an exception is printed and skipped
collect_dropping_successes(results, query, outcome, recency_score) == results

collect(results, query, outcome, recency_score) ==
    IF outcome = "ok"
    THEN Append(results, execute_research(query, recency_score))
    ELSE results

\* research_summary of run_autonomous_dca: result i of the completion order
\* is printed under research_plan.searches[i]
research_summary(search_results) ==
    [i \in DOMAIN search_results |->
        ResearchSummary(i, search_results[i].produced_by,
                        search_results[i].recency_score)]

Drivers == {"orchestrator", "run_autonomous_dca"}

InitResearch ==
    /\ pc = "research"
    /\ research \in [stage : {"running"}, driver : Drivers,
                     outcome : [Queries -> {"ok", "fails"}],
                     recency : [Queries -> RecencyScores],
                     pending : {Queries}, attempts : {[q \in Queries |-> 0]},
                     results : {<<>>}, strategist_input : {<<>>}]
    /\ dry_run = FALSE
    /\ intelligence = NoIntelligence
    /\ actions = <<>>
    /\ validation = NoValidation
    /\ execution = NoExecution
    /\ exchange_calls = <<>>
    /\ result = NoResult
    /\ norm = NoNorm
    /\ mfd = NoMfd
    /\ session = NoSession
    /\ Untouched

ResearchUnchanged ==
    UNCHANGED <<dry_run, intelligence, actions, validation, execution,
                exchange_calls, result, norm, mfd, session, agent_runs,
                selected_option, notification, disk>>

\* execute_research_plan: the next task of asyncio.as_completed finishes;
\* after the last one the results are sorted and returned
ResearchTaskCompletes(q) ==
    /\ pc = "research"
    /\ research.driver = "orchestrator"
    /\ q \in research.pending
    /\ LET results == collect(research.results, q, research.outcome[q],
                              research.recency[q])
           pending == research.pending \ {q}
       IN IF pending = {}
          THEN /\ research' = [research EXCEPT
                     !.pending = pending,
                     !.attempts[q] = @ + 1,
                     !.results = SortByRecency(results),
                     !.stage = "returned"]
               /\ pc' = "research_returned"
          ELSE /\ research' = [research EXCEPT !.pending = pending,
                                               !.attempts[q] = @ + 1,
                                               !.results = results]
               /\ pc' = pc
    /\ ResearchUnchanged

\* DCAOrchestrator.run: generate_strategy_options(market_context,
\* [r.model_dump() for r in research_results], ...)
GenerateStrategyOptions ==
    /\ pc = "research_returned"
    /\ research' = [research EXCEPT !.stage = "strategist",
                                    !.strategist_input = research.results]
    /\ pc' = "strategist"
    /\ ResearchUnchanged

\* AutonomousDCASystem.run, stage 1b: result = await task for the next
\* completed task; after the last one research_summary goes to the strategist
SearchTaskCompletes(q) ==
    /\ pc = "research"
    /\ research.driver = "run_autonomous_dca"
    /\ q \in research.pending
    /\ research.outcome[q] = "ok"
    /\ LET search_results == Append(research.results,
                                 execute_research(q, research.recency[q]))
           pending == research.pending \ {q}
       IN IF pending = {}
          THEN /\ research' = [research EXCEPT
                     !.pending = pending,
                     !.attempts[q] = @ + 1,
                     !.results = search_results,
                     !.stage = "strategist",
                     !.strategist_input = research_summary(search_results)]
               /\ pc' = "strategist"
          ELSE /\ research' = [research EXCEPT !.pending = pending,
                                               !.attempts[q] = @ + 1,
                                               !.results = search_results]
               /\ pc' = pc
    /\ ResearchUnchanged

\* the awaited task raises: the exception reaches run()'s except clause and
\* the cycle returns success = False
SearchTaskRaises(q) ==
    /\ pc = "research"
    /\ research.driver = "run_autonomous_dca"
    /\ q \in research.pending
    /\ research.outcome[q] = "fails"
    /\ research' = [research EXCEPT !.pending = research.pending \ {q},
                                    !.attempts[q] = @ + 1,
                                    !.stage = "aborted"]
    /\ pc' = "returned"
    /\ ResearchUnchanged

NextResearch ==
    \/ \E q \in Queries : ResearchTaskCompletes(q)
    \/ GenerateStrategyOptions
    \/ \E q \in Queries : SearchTaskCompletes(q)
    \/ \E q \in Queries : SearchTaskRaises(q)

SpecResearch == InitResearch /\ [][NextResearch]_vars

\* ------------------------------------------------- the two cycle drivers
\* One cycle of either entry point: AutonomousDCASystem.run or dca-simple's
\* main().
InitCycle == Init \/ InitSimple

NextCycle == Next \/ NextSimple

SpecCycle == InitCycle /\ [][NextCycle]_vars

\* ------------------------------------------------- session persistence
\* Successive cycles writing their records to the same directories.  The
\* clock counts seconds, the resolution of the three file names.
MaxSeconds == 2
MaxCycles == 3

InitPersistence ==
    /\ pc = "persist"
    /\ disk = EmptyDisk
    /\ agent_runs = <<>>
    /\ selected_option = NoOption
    /\ notification = "none"
    /\ dry_run = FALSE
    /\ intelligence = NoIntelligence
    /\ actions = <<>>
    /\ validation = NoValidation
    /\ execution = NoExecution
    /\ exchange_calls = <<>>
    /\ result = NoResult
    /\ norm = NoNorm
    /\ mfd = NoMfd
    /\ research = NoResearch
    /\ session = NoSession

PersistenceUnchanged ==
    UNCHANGED <<pc, agent_runs, selected_option, notification, dry_run,
                intelligence, actions, validation, execution, exchange_calls,
                result, norm, mfd, research, session>>

\* the disk after the running cycle wrote its record; the cycle is over
persist(dir, name, content) ==
    [disk EXCEPT !.files = WriteFile(@, dir, name, content), !.cycle = @ + 1]

\* a second passes
Tick ==
    /\ pc = "persist"
    /\ disk.now < MaxSeconds
    /\ disk' = [disk EXCEPT !.now = @ + 1]
    /\ PersistenceUnchanged

\* AutonomousDCASystem._save_report: the name is datetime.now() at the save
SaveReport ==
    /\ pc = "persist"
    /\ disk.cycle <= MaxCycles
    /\ \E status \in {"PASS", "ISSUES"} :
          disk' = persist("outputs", disk.now, Report(status))
    /\ PersistenceUnchanged

\* DCAOrchestrator._save_trace: the name is datetime.now() at the save
SaveTrace ==
    /\ pc = "persist"
    /\ disk.cycle <= MaxCycles
    /\ disk' = persist("traces", disk.now, [cycle |-> disk.cycle])
    /\ PersistenceUnchanged

\* utils.save_execution_log: the name is session.timestamp, the second in
\* which the session started
SaveExecutionLog ==
    /\ pc = "persist"
    /\ disk.cycle <= MaxCycles
    /\ \E started \in 0..disk.now :
          disk' = persist("executions", started,
                          [cycle |-> disk.cycle, timestamp |-> started])
    /\ PersistenceUnchanged

NextPersistence ==
    \/ Tick
    \/ SaveReport
    \/ SaveTrace
    \/ SaveExecutionLog

SpecPersistence == InitPersistence /\ [][NextPersistence]_vars

\* ------------------------------- validate_deployment_amounts on its own
\* EUR amounts a caller can pass: the decision's amounts are >= 0 by schema
DeployAmounts == {0, Eur(5), float_of([num |-> 19, den |-> 2]), Eur(10),
                  Eur(12), Eur(20)}
DeployCaps == {0, Eur(10), Eur(15), Eur(25), Eur(40)}
DeployBalances == {Eur(5), Eur(12), Eur(30), Eur(100)}

NoCheck == [is_valid |-> FALSE, message |-> "None"]

InitAmounts ==
    /\ pc = "amounts_input"
    /\ session \in [stage : {"amounts"}, btc_amount : DeployAmounts,
                    ada_amount : DeployAmounts, max_deploy : DeployCaps,
                    eur_balance : DeployBalances, checked : {NoCheck}]
    /\ exchange_calls = <<>>
    /\ dry_run = FALSE
    /\ intelligence = NoIntelligence
    /\ actions = <<>>
    /\ validation = NoValidation
    /\ execution = NoExecution
    /\ result = NoResult
    /\ norm = NoNorm
    /\ mfd = NoMfd
    /\ research = NoResearch
    /\ Untouched

ValidateDeploymentAmounts ==
    /\ pc = "amounts_input"
    /\ session' = [session EXCEPT !.checked =
          validate_deployment_amounts(session.btc_amount, session.ada_amount,
                                      session.max_deploy, session.eur_balance)]
    /\ pc' = "amounts_checked"
    /\ UNCHANGED <<exchange_calls, agent_runs>>
    /\ SimpleUnchanged

NextAmounts == ValidateDeploymentAmounts

SpecAmounts == InitAmounts /\ [][NextAmounts]_vars

\* ================================================================ claims
IsPlace(type) ==
    type \in {"PLACE_LIMIT_BUY", "PLACE_LIMIT_SELL",
              "PLACE_MARKET_BUY", "PLACE_MARKET_SELL"}

IsLimit(type) == type \in {"PLACE_LIMIT_BUY", "PLACE_LIMIT_SELL"}

Accepted == pc = "validator_done" /\ validation.is_valid

CountActions(acts, types, asset) ==
    Cardinality({i \in DOMAIN acts : acts[i].type \in types /\ acts[i].asset = asset})

\* hard limit 1: existing + new - cancelled, per asset and in total
ResultingOrders(intel, acts, asset) ==
    existing_orders_for_asset(intel, asset)
    + CountActions(acts, {"PLACE_LIMIT_BUY", "PLACE_LIMIT_SELL"}, asset)
    - CountActions(acts, {"CANCEL_ORDER"}, asset)

OrderCountWithinCaps(intel, acts) ==
    /\ \A asset \in {"BTCUSDT", "ADAUSDT"} :
          ResultingOrders(intel, acts, asset) <= MAX_ORDERS_PER_ASSET
    /\ ResultingOrders(intel, acts, "BTCUSDT") + ResultingOrders(intel, acts, "ADAUSDT")
          <= MAX_TOTAL_ORDERS

\* hard limit 2: pending notional (existing open orders + new) over portfolio value
ExistingNotional(intel) ==
    SumSeq([k \in DOMAIN intel.open_orders |->
              (intel.open_orders[k].price * intel.open_orders[k].quantity) \div QtyScale])

NewNotional(acts) ==
    SumSeq([i \in DOMAIN acts |->
              IF IsPlace(acts[i].type) /\ "amount_usd" \in acts[i].keys
              THEN acts[i].amount_usd ELSE 0])

ExposureWithinCap(intel, acts) ==
    (ExistingNotional(intel) + NewNotional(acts)) * 100
        <= MAX_EXPOSURE_PCT * intel.total_value_usd

\* hard limit 3: limit price within the band and on the right side of the market
LimitPriceOK(intel, a) ==
    LET market == current_price(intel, a.asset)
    IN /\ 100 * a.price <= (100 + PRICE_DEVIATION_PCT) * market
       /\ 100 * a.price >= (100 - PRICE_DEVIATION_PCT) * market
       /\ a.type = "PLACE_LIMIT_BUY" => a.price <= market
       /\ a.type = "PLACE_LIMIT_SELL" => a.price >= market

PricesOK(intel, acts) ==
    \A i \in DOMAIN acts :
        (IsLimit(acts[i].type) /\ "price" \in acts[i].keys /\ KnownAsset(acts[i].asset))
            => LimitPriceOK(intel, acts[i])

\* hard limit 4: every Place action is worth at least the minimum
MinValueOK(acts) ==
    \A i \in DOMAIN acts :
        (IsPlace(acts[i].type) /\ "amount_usd" \in acts[i].keys)
            => acts[i].amount_usd >= MIN_ORDER_VALUE_USD

\* hard limit 5: no two limit orders of one asset at one price
NoDuplicatePrice(intel, acts) ==
    /\ \A i, j \in DOMAIN acts :
          (i < j /\ IsLimit(acts[i].type) /\ IsLimit(acts[j].type)
                 /\ acts[i].asset = acts[j].asset)
              => acts[i].price # acts[j].price
    /\ \A i \in DOMAIN acts : \A k \in DOMAIN intel.open_orders :
          (IsLimit(acts[i].type) /\ acts[i].asset = intel.open_orders[k].symbol)
              => acts[i].price # intel.open_orders[k].price

HardLimitViolated(intel, acts) ==
    \/ ~OrderCountWithinCaps(intel, acts)
    \/ ~ExposureWithinCap(intel, acts)
    \/ ~PricesOK(intel, acts)
    \/ ~MinValueOK(acts)
    \/ ~NoDuplicatePrice(intel, acts)

\* C1: an order-placement call happens only after the validation of that same
\* action list completed with zero violations, and a validation that reported
\* a violation ends the cycle with no order placed.
C1_OrdersOnlyAfterCleanValidation ==
    /\ (execution.called \/ exchange_calls # <<>>) =>
          /\ validation = validate_trading_decision(intelligence, actions)
          /\ ~validation.raised
          /\ validation.is_valid
          /\ validation.errors = <<>>
          /\ \A c \in DOMAIN exchange_calls : \E i \in DOMAIN actions :
                actions[i].asset = exchange_calls[c].symbol
    /\ Len(validation.errors) > 0 =>
          /\ pc = "returned"
          /\ ~result.success
          /\ ~execution.called
          /\ exchange_calls = <<>>

C1_Witness ==
    /\ exchange_calls # <<>>
    /\ validation.is_valid
    /\ pc = "returned"

\* C2: the validator reports a violation exactly when one of the five hard
\* limits is violated by the proposed action set.
C2_TripwireIffHardLimitViolated ==
    pc = "validator_done" =>
        (~validation.is_valid <=> HardLimitViolated(intelligence, actions))

\* C3: an accepted action set leaves every asset and the total within the
\* open-order caps, counting existing + new - cancelled.
C3_AcceptedWithinOrderCaps ==
    Accepted => OrderCountWithinCaps(intelligence, actions)

\* C4: an accepted action set keeps pending notional (existing + new) over
\* portfolio value within the maximum exposure.
C4_AcceptedWithinExposure ==
    Accepted => ExposureWithinCap(intelligence, actions)

\* C5: every limit action of an accepted set is priced within the deviation
\* band of its asset's market price, a buy not above and a sell not below it.
C5_AcceptedLimitPricesInBand ==
    Accepted =>
        \A i \in DOMAIN actions :
            IsLimit(actions[i].type) =>
                /\ "price" \in actions[i].keys
                /\ KnownAsset(actions[i].asset)
                /\ LimitPriceOK(intelligence, actions[i])

C5_Witness ==
    /\ Accepted
    /\ \E i, j \in DOMAIN actions :
          /\ actions[i].type = "PLACE_LIMIT_BUY"
          /\ actions[i].price = 95
          /\ actions[j].type = "PLACE_LIMIT_SELL"
          /\ actions[j].price = 105

\* C6: an accepted action set holds no two limit orders of one asset at one
\* price, among the new actions or against the existing open orders.
C6_AcceptedNoDuplicatePrice ==
    Accepted => NoDuplicatePrice(intelligence, actions)

\* C7: every Place action that reaches the executor is worth at least the
\* minimum order value and every Limit action that reaches it has a price > 0.
C7_ExecutedActionsWellFormed ==
    execution.called =>
        \A i \in DOMAIN actions :
            /\ IsPlace(actions[i].type) =>
                  /\ "amount_usd" \in actions[i].keys
                  /\ actions[i].amount_usd >= MIN_ORDER_VALUE_USD
            /\ IsLimit(actions[i].type) =>
                  /\ "price" \in actions[i].keys
                  /\ actions[i].price > 0

C7_Witness ==
    /\ execution.called
    /\ Len(actions) = MaxActions
    /\ \A i \in DOMAIN actions : IsLimit(actions[i].type)
    /\ Len(exchange_calls) = Len(actions)

\* C9: the price the normaliser returns, and the order carries, is an exact
\* multiple of the symbol's tick_size within [min_price, max_price], whatever
\* the raw price, the filter and the outcome of the symbol-info lookup.
C9_PriceIsTickMultiple ==
    (norm.stage \in {"price", "quantity"} /\ norm.price_filter.tick_size > 0) =>
        /\ norm.limit_price % norm.price_filter.tick_size = 0
        /\ norm.limit_price >= norm.price_filter.min_price
        /\ norm.limit_price <= norm.price_filter.max_price
        /\ \A c \in DOMAIN exchange_calls :
              exchange_calls[c].price % norm.price_filter.tick_size = 0

\* C10: the quantity the normaliser returns is an exact multiple of step_size
\* and never above the raw quantity, so the order's price x quantity never
\* exceeds the action's notional.
C10_QuantityFlooredWithinBudget ==
    (norm.stage = "quantity" /\ norm.qty_lookup = "ok"
                             /\ norm.lot_size.step_size > 0) =>
        /\ norm.quantity.d = 1
        /\ norm.quantity.n % norm.lot_size.step_size = 0
        /\ norm.quantity.n * norm.raw_quantity.d <= norm.raw_quantity.n
        /\ \A c \in DOMAIN exchange_calls :
              exchange_calls[c].price * exchange_calls[c].quantity
                  <= norm.amount_usd * QtyScale

\* a limit action whose price breaks hard limit 3 in the given market
ActionViolatesPriceLimit(context, a) ==
    /\ IsLimit(a.type)
    /\ a.price # None
    /\ KnownAsset(a.asset)
    /\ ~LimitPriceOK(context, a)

BothReturned ==
    mfd.stage = "running" /\ \A r \in 1..2 : mfd.runs[r].stage = "returned"

\* C8: the guardrail outcome returned with a decision judges that decision's
\* actions: of two calls on one market context whose decisions differ in an
\* action that violates a hard limit, not both are returned with PASS.
C8_GuardrailJudgesReturnedDecision ==
    (/\ BothReturned
     /\ \E i \in DOMAIN mfd.runs[2].actions :
           /\ ActionViolatesPriceLimit(mfd.context, mfd.runs[2].actions[i])
           /\ \A j \in DOMAIN mfd.runs[1].actions :
                 mfd.runs[1].actions[j] # mfd.runs[2].actions[i])
        => ~(mfd.runs[1].status = "PASS" /\ mfd.runs[2].status = "PASS")

\* C11: when the floored quantity is below min_qty and an order of min_qty at
\* the limit price would cost more than the action's notional, the order is
\* rejected: no order is submitted for the action.
C11_OversizedMinQtyRejected ==
    (/\ norm.stage = "quantity"
     /\ norm.qty_lookup = "ok"
     /\ norm.lot_size.step_size > 0
     /\ Floor(norm.raw_quantity.n,
              norm.raw_quantity.d * norm.lot_size.step_size)
            * norm.lot_size.step_size < norm.lot_size.min_qty
     /\ norm.limit_price * norm.lot_size.min_qty > norm.amount_usd * QtyScale)
    => /\ pc # "order_placed"
       /\ exchange_calls = <<>>

\* C12: the normaliser is idempotent: applied to the price and to the
\* quantity it returned, under the same filter, it returns them unchanged.
C12_NormalizerIdempotent ==
    (pc = "renormalized" /\ norm.stage = "twice") =>
        /\ norm.price_twice = norm.price_once
        /\ norm.quantity_twice = norm.quantity_once

\* C13: execute_actions attempts every action of its list once, in order, and
\* records one result per action: result i is for action i, executed + failed
\* is the number of actions, and a failed action does not stop later ones.
C13_OneResultPerAction ==
    execution.called =>
        /\ ~execution.raised
        /\ Len(execution.results) = Len(actions)
        /\ \A i \in DOMAIN execution.results :
              /\ execution.results[i].action = actions[i]
              /\ (actions[i].type \in {"PLACE_LIMIT_BUY", "PLACE_LIMIT_SELL"}
                    => execution.results[i].call.made)
        /\ execution.executed + execution.failed = Len(actions)
        /\ exchange_calls = CallsOf(execution.results)

C13_Witness ==
    /\ execution.called
    /\ Len(actions) = 2
    /\ actions[1].type = "PLACE_MARKET_BUY"
    /\ ~execution.results[1].success
    /\ execution.results[2].success
    /\ Len(exchange_calls) = 1

C15_DryRunSyntheticResults ==
    (dry_run /\ execution.dry_run) =>
        /\ exchange_calls = <<>>
        /\ validation.is_valid
        /\ Len(execution.results) =
              Cardinality({i \in DOMAIN actions : IsPlace(actions[i].type)})
        /\ \A i \in DOMAIN execution.results : execution.results[i].success

\* the queries whose task succeeded
Succeeded == {q \in Queries : research.outcome[q] = "ok"}

C17_AllQueriesFailedAborts ==
    Succeeded = {} => pc # "strategist"

\* C18: one query failing while another succeeds never aborts the cycle,
\* whichever driver runs the fan-out; the failed query is dropped and the
\* Strategist receives only results of successful queries.
C18_PartialFailureTolerated ==
    (Succeeded # {} /\ Succeeded # Queries) =>
        /\ research.stage # "aborted"
        /\ pc = "strategist" =>
              \A i \in DOMAIN research.strategist_input :
                  research.strategist_input[i].produced_by \in Succeeded

\* C19: every result handed to the Strategist is labelled with the query
\* whose task produced it, in every completion order.
C19_ResultsKeyedByQuery ==
    pc = "strategist" =>
        \A i \in DOMAIN research.strategist_input :
            research.strategist_input[i].query
                = research.strategist_input[i].produced_by


\* the completion orders of the tasks of the queries in S
CompletionOrders(S) ==
    {order \in [1..Cardinality(S) -> S] :
        \A i, j \in DOMAIN order : order[i] = order[j] => i = j}

\* what execute_research_plan returns when the successful tasks complete
\* in the given order
ReturnedFor(order) ==
    SortByRecency([i \in DOMAIN order |->
                      execute_research(order[i], research.recency[order[i]])])

\* C20: the summaries handed to the Strategist by the orchestrator are in
\* non-increasing recency order, and the sequence is the same for every
\* completion order of the same successful results.
C20_SortedAndDeterministic ==
    (pc = "strategist" /\ research.driver = "orchestrator") =>
        /\ \A i, j \in DOMAIN research.strategist_input :
              i < j => research.strategist_input[i].recency_score
                          >= research.strategist_input[j].recency_score
        /\ \A order \in CompletionOrders(Succeeded) :
              ReturnedFor(order) = research.strategist_input


\* the market-context fetch of the cycle failed: stage 0 of run(), or step 1
\* or step 2 of run_dca_session
MarketFetchFailed ==
    \/ pc \in {"upstream", "decide", "validate", "execute", "verify", "returned"}
          /\ intelligence = NoIntelligence
    \/ pc = "exited" /\ session.error = "BinanceAPIException"

\* C21: when the market-context fetch fails the cycle is over: no agent was
\* run and no order was submitted.
C21_FetchFailureAbortsBeforeOracle ==
    MarketFetchFailed =>
        /\ pc \in {"returned", "exited"}
        /\ agent_runs = <<>>
        /\ exchange_calls = <<>>

C21_Witness ==
    /\ pc = "returned"
    /\ result.returned
    /\ result.error = "market_data"
    /\ agent_runs = <<>>


\* the session records persisted by the cycle
PersistedRecords ==
    IF pc = "exited" THEN Len(session.saved) ELSE Cardinality(disk.files)

\* C22: every finished cycle has persisted exactly one session record, and
\* when orders were submitted the record holds their execution results.
C22_EveryCyclePersistsOneRecord ==
    pc \in {"returned", "exited"} =>
        /\ PersistedRecords = 1
        /\ (pc = "returned" /\ exchange_calls # <<>>) =>
              \E f \in disk.files : f.content.results = execution.results
        /\ (pc = "exited" /\ exchange_calls # <<>>) =>
              session.saved[1].execution_results = session.results


\* the notifier was called and did not deliver the message
NotificationFailed == notification \notin {"none", "sent"}

\* C23: a failed notification is not fatal: the cycle still returns its
\* complete report, the record on disk stays, and the reported success flag
\* and execution results are those of the execution.
C23_NotificationFailureNonFatal ==
    NotificationFailed =>
        /\ pc = "returned"
        /\ result.stage = "complete"
        /\ result.success = execution.success
        /\ \E f \in disk.files :
              /\ f.content.success = execution.success
              /\ f.content.results = execution.results

C23_Witness ==
    /\ pc = "returned"
    /\ notification = "failed"
    /\ exchange_calls # <<>>
    /\ result.success
    /\ Cardinality(disk.files) = 1


\* the cycle returned after the verifier answered or failed
VerifierDecided ==
    /\ result.returned
    /\ \E i \in DOMAIN agent_runs : agent_runs[i] = "verifier"
    /\ result.error \in {"None", "verifier_agent"}

\* C24: the verifier is advisory: whatever it answers, and when its call
\* fails, the cycle reports the success flag and the results of the
\* execution, and the orders of the approved decision were submitted.
C24_VerifierAdvisoryOnly ==
    VerifierDecided =>
        /\ result.success = execution.success
        /\ result.stage = "complete"
        /\ \E f \in disk.files : f.content.results = execution.results
        /\ exchange_calls = CallsOf(execution.results)


\* (btc_allocation_pct + ada_allocation_pct) / 100 x available USDT, times 100
AllocationBudgetPct(option, intel) ==
    (option.btc_allocation_pct + option.ada_allocation_pct) * intel.usdt_free

\* C25: a decision handed to the executor spends at most the allocation
\* budget of the strategy option it selected.
C25_NotionalWithinAllocationBudget ==
    (~dry_run /\ execution.called) =>
        total_usd(actions) * 100
            <= AllocationBudgetPct(selected_option, intelligence)


\* C26: persistence is write-once and append-only: a file once written is
\* there, with the same content, after every later save.
C26_PersistenceAppendOnly ==
    [][\A f \in disk.files : f \in disk'.files]_vars


\* an amount is 0 or reaches the minimum order size
OrderableAmount(x) == x = 0 \/ x >= Eur(MIN_ORDER_SIZE)

\* the first constraint of the claim's list that the inputs violate
FirstViolation(btc, ada, max_deploy, balance) ==
    IF FloatAdd(btc, ada) > max_deploy THEN "exceeds max deploy"
    ELSE IF FloatAdd(btc, ada) > balance THEN "exceeds balance"
    ELSE IF ~OrderableAmount(btc) THEN "BTC amount below minimum"
    ELSE IF ~OrderableAmount(ada) THEN "ADA amount below minimum"
    ELSE "Validation passed"

\* C27: validate_deployment_amounts answers valid exactly when the total is
\* within max_deploy and within the balance and each amount is 0 or at least
\* MIN_ORDER_SIZE; otherwise its message names the first violated constraint.
C27_ValidIffAllConstraints ==
    pc = "amounts_checked" =>
        LET btc == session.btc_amount
            ada == session.ada_amount
        IN /\ session.checked.is_valid <=>
                 /\ FloatAdd(btc, ada) <= session.max_deploy
                 /\ FloatAdd(btc, ada) <= session.eur_balance
                 /\ OrderableAmount(btc)
                 /\ OrderableAmount(ada)
           /\ session.checked.message =
                 FirstViolation(btc, ada, session.max_deploy,
                                session.eur_balance)

C27_Witness ==
    /\ pc = "amounts_checked"
    /\ ~session.checked.is_valid
    /\ session.checked.message = "exceeds balance"
    /\ OrderableAmount(session.btc_amount)
    /\ OrderableAmount(session.ada_amount)


\* the decision agent of dca-simple was asked
OracleCalled == \E i \in DOMAIN agent_runs : agent_runs[i] = "decision_agent"

\* the session run_dca_session returned
ReturnedSession(session_type) ==
    /\ session.stage = "returned"
    /\ session.record.session_type = session_type

\* C28: run_dca_session consults the oracle and the executor only when
\* something is deployable: a balance below MIN_EUR_THRESHOLD or a cap below
\* MIN_ORDER_SIZE ends as a SKIP session without oracle call or order, a HOLD
\* decision ends as a HOLD session without order, and the oracle is only
\* called with max_deploy >= MIN_ORDER_SIZE.
C28_OracleOnlyWhenDeployable ==
    /\ OracleCalled => session.max_deploy >= Eur(MIN_ORDER_SIZE)
    /\ (pc = "exited" /\ session.error \in {"None", "ValidationError", "OSError"}
        /\ ~OracleCalled) =>
          /\ ReturnedSession("SKIP")
          /\ exchange_calls = <<>>
    /\ (pc = "exited" /\ session.error \in {"None", "ValidationError", "OSError"}
        /\ OracleCalled /\ is_hold(session.decision)) =>
          /\ ReturnedSession("HOLD")
          /\ exchange_calls = <<>>


\* validate_deployment_amounts rejected the decision get_decision returned
DecisionRejected ==
    pc = "exited" /\ session.error = "ValueError" /\ OracleCalled

Underspecified(a) == ~({"price", "amount_usd"} \subseteq a.keys)

\* C30: in run() a decision with an action lacking a price or an amount
\* ends as a validation failure with no order and success = False; only
\* decisions made of fully specified limit actions reach the executor, and a
\* pure HOLD decision never completes successfully.
C30_UnderspecifiedActionsBlocked ==
    /\ (pc = "returned" /\ validation # NoValidation
        /\ \E i \in DOMAIN actions : Underspecified(actions[i])) =>
          /\ result = Returned(FALSE, "validation", "Safety validation failed")
          /\ exchange_calls = <<>>
    /\ (pc \in {"execute", "verify"} \/ execution.called) =>
          \A i \in DOMAIN actions :
              IsLimit(actions[i].type) /\ ~Underspecified(actions[i])
    /\ (actions # <<>> /\ \A i \in DOMAIN actions : actions[i].type = "HOLD") =>
          ~(result.returned /\ result.success)

====
